---- MODULE Spec2Model ----
(***************************************************************************)
(* A model of transdoc's document translation (src/translate.py):          *)
(* TranslationClient.translate, DocxTranslator.extract_text, update_text,  *)
(* process_table and translate_document.                                   *)
(*                                                                         *)
(* Text is a sequence of one-character strings; SP is the blank.  A        *)
(* document is the sequence of its w:p paragraphs in document order, each  *)
(* with its w:t leaves, and the sequence of its w:tc cells.                *)
(***************************************************************************)
EXTENDS Naturals, Sequences, FiniteSets

VARIABLES
    pc,          \* position of translate_document (or of the update_text call)
    max_retries, \* TranslationClient.max_retries
    inDoc,       \* word/document.xml of the input package, as parsed
    inMembers,   \* the other members of the input package: name -> content
    scratch,     \* the directory temp_docx
    tree,        \* the ElementTree being rewritten
    idx,         \* position of the running for loop
    last,        \* the latest call of TranslationClient.translate
    requested,   \* the units translate has been called for
    covered,     \* per paragraph, the number of calls its text was part of
    updated,     \* paragraphs update_text has been called on
    out,         \* the file at output_file
    other,       \* position of a second invocation of translate_document
    err,         \* the stage whose exception is propagating, or "none"
    uText        \* the translated_text argument of the update_text call

vars == <<pc, max_retries, inDoc, inMembers, scratch, tree, idx, last,
          requested, covered, updated, out, err, uText, other>>

-----------------------------------------------------------------------------
(* Bounds of the model *)

MaxParas == 2
MaxTextLen == 7
MaxLeaves == 3

-----------------------------------------------------------------------------
(* Strings *)

SP == " "

Max(a, b) == IF a >= b THEN a ELSE b

Min(a, b) == IF a <= b THEN a ELSE b

RECURSIVE lstrip(_)
lstrip(s) ==
    IF s = <<>> THEN <<>>
    ELSE IF Head(s) = SP THEN lstrip(Tail(s)) ELSE s

RECURSIVE rstrip(_)
rstrip(s) ==
    IF s = <<>> THEN <<>>
    ELSE IF s[Len(s)] = SP THEN rstrip(SubSeq(s, 1, Len(s) - 1)) ELSE s

\* str.strip()
strip(s) == rstrip(lstrip(s))

RECURSIVE SplitFrom(_, _)
SplitFrom(s, cur) ==
    IF s = <<>> THEN (IF cur = <<>> THEN <<>> ELSE <<cur>>)
    ELSE IF Head(s) = SP
         THEN (IF cur = <<>> THEN <<>> ELSE <<cur>>) \o SplitFrom(Tail(s), <<>>)
         ELSE SplitFrom(Tail(s), Append(cur, Head(s)))

\* str.split(): the maximal runs of non-blank characters
split(s) == SplitFrom(s, <<>>)

RECURSIVE join(_)
\* ' '.join(ws)
join(ws) ==
    IF ws = <<>> THEN <<>>
    ELSE IF Len(ws) = 1 THEN ws[1]
    ELSE ws[1] \o <<SP>> \o join(Tail(ws))

RECURSIVE concat(_)
\* ''.join(ts)
concat(ts) == IF ts = <<>> THEN <<>> ELSE Head(ts) \o concat(Tail(ts))

\* words[start:end], Python's clamped slice with 0-based bounds
slice(words, start, end) == SubSeq(words, start + 1, Min(end, Len(words)))

\* the literal "error" returned when every attempt failed
ERROR == <<"e", "r", "r", "o", "r">>

\* Python's None, what translate returns when its loop body never runs
NONE == <<"None">>

-----------------------------------------------------------------------------
(* DocxTranslator.update_text, on the list of a container's w:t texts *)

update_text_drop_remainder(leaves, translated_text) ==
    IF strip(translated_text) = <<>> THEN leaves
    ELSE IF Len(leaves) = 0 THEN leaves
    ELSE IF Len(leaves) = 1 THEN <<translated_text>>
    ELSE LET words == split(translated_text)
             total_words == Len(words)
             n == Len(leaves)
             words_per_element == Max(1, total_words \div n)
         IN  [i \in 1..n |->
                 LET start_idx == (i - 1) * words_per_element
                     end_idx == start_idx + words_per_element
                 IN  IF start_idx < total_words
                     THEN join(slice(words, start_idx, end_idx))
                     ELSE <<>>]

update_text_no_max(leaves, translated_text) ==
    IF strip(translated_text) = <<>> THEN leaves
    ELSE IF Len(leaves) = 0 THEN leaves
    ELSE IF Len(leaves) = 1 THEN <<translated_text>>
    ELSE LET words == split(translated_text)
             total_words == Len(words)
             n == Len(leaves)
             words_per_element == total_words \div n
         IN  [i \in 1..n |->
                 LET start_idx == (i - 1) * words_per_element
                     end_idx == IF i < n THEN start_idx + words_per_element
                                ELSE total_words
                 IN  IF start_idx < total_words
                     THEN join(slice(words, start_idx, end_idx))
                     ELSE <<>>]

update_text_drop_empty(leaves, translated_text) ==
    IF strip(translated_text) = <<>> THEN leaves
    ELSE IF Len(leaves) = 0 THEN leaves
    ELSE IF Len(leaves) = 1 THEN <<translated_text>>
    ELSE LET words == split(translated_text)
             total_words == Len(words)
             n == Len(leaves)
             words_per_element == Max(1, total_words \div n)
         IN  [i \in 1..Min(n, total_words) |->
                 LET start_idx == (i - 1) * words_per_element
                     end_idx == IF i < n THEN start_idx + words_per_element
                                ELSE total_words
                 IN  join(slice(words, start_idx, end_idx))]

update_text(leaves, translated_text) ==
    IF strip(translated_text) = <<>> THEN leaves
    ELSE IF Len(leaves) = 0 THEN leaves
    ELSE IF Len(leaves) = 1 THEN <<translated_text>>
    ELSE LET words == split(translated_text)
             total_words == Len(words)
             n == Len(leaves)
             words_per_element == Max(1, total_words \div n)
         IN  [i \in 1..n |->
                 LET start_idx == (i - 1) * words_per_element
                     end_idx == IF i < n THEN start_idx + words_per_element
                                ELSE total_words
                 IN  IF start_idx < total_words
                     THEN join(slice(words, start_idx, end_idx))
                     ELSE <<>>]

\* update_text(element, translated_text) on paragraph p of the tree t: only
\* the text of the paragraph's leaves is assigned
UpdateElement(t, p, translated_text) ==
    [t EXCEPT ![p].leaves = update_text(@, translated_text)]

-----------------------------------------------------------------------------
(* The document: paragraphs and table cells in document order.  A paragraph  *)
(* is [leaves, math, cell]: the texts of its w:t leaves, whether a node of   *)
(* the math namespace lies in it, and its innermost cell (0 in the body).    *)
(* A cell is [tbl, row, parent]: its table, its row in that table, and the   *)
(* cell that holds its table (0 for a table of the body).                    *)

RECURSIVE Anc(_, _)
\* the cells that contain cell c, c included
Anc(cells, c) == IF c = 0 THEN {} ELSE {c} \cup Anc(cells, cells[c].parent)

RECURSIVE SortedSeq(_)
SortedSeq(S) ==
    IF S = {} THEN <<>>
    ELSE LET m == CHOOSE x \in S : \A y \in S : x <= y
         IN  <<m>> \o SortedSeq(S \ {m})

\* is_math_element(element) of a paragraph
is_math_element(para) == para.math

\* extract_text(element) of a paragraph; an empty t.text adds nothing
extract_text(para) ==
    IF is_math_element(para) THEN <<>> ELSE strip(concat(para.leaves))

\* cell.findall('.//w:p'): every paragraph below the cell, in document order
CellParas(t, cells, c) ==
    SortedSeq({p \in DOMAIN t : c \in Anc(cells, t[p].cell)})

RECURSIVE CellTextFrom(_, _, _)
CellTextFrom(t, ps, cell_text) ==
    IF ps = <<>> THEN cell_text
    ELSE LET text == extract_text(t[Head(ps)])
         IN  CellTextFrom(t, Tail(ps),
                 IF strip(text) # <<>> THEN cell_text \o text \o <<SP>>
                 ELSE cell_text)

\* the cell_text process_table builds for cell c
CellText(t, cells, c) == strip(CellTextFrom(t, CellParas(t, cells, c), <<>>))

\* root.findall('.//w:tbl'): every table, in document order
Tables(cells) == SortedSeq({cells[c].tbl : c \in DOMAIN cells})

\* table.findall('.//w:tr'): every row below the table, rows of nested tables
\* included; a row is named by its first cell
TableRows(cells, tb) ==
    SortedSeq({c \in DOMAIN cells :
        /\ \A d \in DOMAIN cells :
              (cells[d].tbl = cells[c].tbl /\ cells[d].row = cells[c].row) => c <= d
        /\ tb \in {cells[a].tbl : a \in Anc(cells, c)}})

\* row.findall('.//w:tc'): every cell below the row, cells of nested tables
\* included
RowCells(cells, r) ==
    SortedSeq({c \in DOMAIN cells :
        \E a \in Anc(cells, c) :
            cells[a].tbl = cells[r].tbl /\ cells[a].row = cells[r].row})

RECURSIVE RowsVisits(_, _)
RowsVisits(cells, rows) ==
    IF rows = <<>> THEN <<>>
    ELSE RowCells(cells, Head(rows)) \o RowsVisits(cells, Tail(rows))

RECURSIVE TablesVisits(_, _)
TablesVisits(cells, tbs) ==
    IF tbs = <<>> THEN <<>>
    ELSE RowsVisits(cells, TableRows(cells, Head(tbs)))
             \o TablesVisits(cells, Tail(tbs))

\* the cells process_table is run on, in the order of the three nested loops
\* of translate_document and process_table
Visits(cells) == TablesVisits(cells, Tables(cells))

-----------------------------------------------------------------------------
(* TranslationClient.translate *)

\* translate_text raising
FAIL == <<"raise">>

\* what translate_text returns when it returns: the answer of the service,
\* stripped
BackendTexts == { <<>>, <<"x">>, <<"x", SP, "y">> }

Outcomes == BackendTexts \cup {FAIL}

RECURSIVE translate_from(_, _, _)
translate_from(outcomes, n, attempt) ==
    IF attempt >= n THEN NONE
    ELSE IF outcomes[attempt + 1] # FAIL THEN outcomes[attempt + 1]
    ELSE IF attempt + 1 = n THEN ERROR
    ELSE translate_from(outcomes, n, attempt + 1)

\* translate(text), given what each call of translate_text does
translate(outcomes, n) == translate_from(outcomes, n, 0)

\* every value translate can return with max_retries = n
TranslateResults(n) == {translate(o, n) : o \in [1..n -> Outcomes]}

-----------------------------------------------------------------------------
(* The inputs *)

\* the tables of the document: none, two cells in one row, two rows of one
\* cell, and a table in the cell of another
Layouts ==
    { <<>>,
      << [tbl |-> 1, row |-> 1, parent |-> 0], [tbl |-> 1, row |-> 1, parent |-> 0] >>,
      << [tbl |-> 1, row |-> 1, parent |-> 0], [tbl |-> 1, row |-> 2, parent |-> 0] >>,
      << [tbl |-> 1, row |-> 1, parent |-> 0], [tbl |-> 2, row |-> 1, parent |-> 1] >> }

\* a table in the first of the two cells of a row
NestedLayout ==
    << [tbl |-> 1, row |-> 1, parent |-> 0], [tbl |-> 2, row |-> 1, parent |-> 1],
       [tbl |-> 1, row |-> 1, parent |-> 0] >>

\* the paragraphs of the document: without leaves, blank, "a " and "b" in
\* two leaves, and "a " beside a formula
ParaKinds ==
    { [leaves |-> <<>>, math |-> FALSE],
      [leaves |-> << <<SP>> >>, math |-> FALSE],
      [leaves |-> << <<"a", SP>>, <<"b">> >>, math |-> FALSE],
      [leaves |-> << <<"a", SP>> >>, math |-> TRUE] }

\* the top-level table a paragraph lies in, 0 in the body
TopTable(d, p) ==
    IF d.paras[p].cell = 0 THEN 0
    ELSE LET top == CHOOSE a \in Anc(d.cells, d.paras[p].cell) : d.cells[a].parent = 0
         IN  d.cells[top].tbl

\* paragraphs and cells are numbered in document order: what lies in a cell,
\* or in a table of the body, is contiguous, and a cell's content precedes
\* that of every later cell outside it
WellFormed(d) ==
    LET P == DOMAIN d.paras
        In(p, c) == c \in Anc(d.cells, d.paras[p].cell)
    IN  /\ \A p \in P : d.paras[p].cell \in 0..Len(d.cells)
        /\ \A c \in DOMAIN d.cells : \A p, q, r \in P :
              (p < q /\ q < r /\ In(p, c) /\ In(r, c)) => In(q, c)
        /\ \A p, q, r \in P :
              (p < q /\ q < r /\ TopTable(d, p) # 0 /\ TopTable(d, p) = TopTable(d, r))
                  => TopTable(d, q) = TopTable(d, p)
        /\ \A c, e \in DOMAIN d.cells : \A p, q \in P :
              (c < e /\ c \notin Anc(d.cells, e) /\ In(p, c) /\ In(q, e)) => p < q

ParaRecs(cells) ==
    { [leaves |-> k.leaves, math |-> k.math, cell |-> c] :
          k \in ParaKinds, c \in 0..Len(cells) }

Docs ==
    UNION { { d \in [paras : [1..MaxParas -> ParaRecs(cells)], cells : {cells}] :
                  WellFormed(d) } : cells \in Layouts }

\* the documents with a table in the first of the two cells of a row
NestedDocs ==
    { d \in [paras : [1..MaxParas -> ParaRecs(NestedLayout)], cells : {NestedLayout}] :
          WellFormed(d) }

\* the members of the package beside word/document.xml: a file, and with or
\* without an entry for the directory word/
MemberSets ==
    { [n \in {"styles.xml"} |-> "b1"],
      [n \in {"styles.xml", "word/"} |-> IF n = "word/" THEN "dir" ELSE "b1"] }

NoFiles == [n \in {} |-> "b1"]

NoScratch == [exists |-> FALSE, files |-> NoFiles, hasDoc |-> FALSE, doc |-> <<>>]

\* temp_docx left behind with a file in it
StaleScratch ==
    [exists |-> TRUE, files |-> [n \in {"stale.bin"} |-> "b9"],
     hasDoc |-> FALSE, doc |-> <<>>]

NoOutput == [exists |-> FALSE, complete |-> FALSE, files |-> NoFiles,
             hasDoc |-> FALSE, doc |-> <<>>]

\* a file already at output_file, left by an earlier run
PriorOutput == [exists |-> TRUE, complete |-> TRUE,
                files |-> [n \in {"old.bin"} |-> "b7"],
                hasDoc |-> FALSE, doc |-> <<>>]

NoRequest == [kind |-> "none", id |-> 0, text |-> <<>>, result |-> <<>>]

\* max_retries: the default of TranslationClient.__init__
DefaultMaxRetries == 3

\* a document of body paragraphs "a " "b" alone
PlainDoc(d) ==
    \A p \in DOMAIN d.paras :
        d.paras[p] = [leaves |-> << <<"a", SP>>, <<"b">> >>, math |-> FALSE, cell |-> 0]

\* The start of translate_document.  Every document is run in the plain
\* surroundings (no stale temp_docx, no directory entry in the package, no
\* file at output_file, the default max_retries), and the plain document in
\* every surroundings.
InitRun(docs) ==
    /\ pc = "start"
    /\ inDoc \in docs
    /\ inMembers \in MemberSets
    /\ scratch \in {NoScratch, StaleScratch}
    /\ max_retries \in {0, DefaultMaxRetries}
    /\ out \in {NoOutput, PriorOutput}
    /\ \/ (max_retries = DefaultMaxRetries /\ scratch = NoScratch
              /\ DOMAIN inMembers = {"styles.xml"} /\ out = NoOutput)
       \/ PlainDoc(inDoc)
    /\ tree = <<>>
    /\ idx = 0
    /\ last = NoRequest
    /\ requested = {}
    /\ covered = [p \in DOMAIN inDoc.paras |-> 0]
    /\ updated = {}
    /\ err = "none"
    /\ uText = <<>>

\* one invocation alone
Init == InitRun(Docs) /\ other = "idle"

-----------------------------------------------------------------------------
(* translate_document *)

\* self.translator.translate(text, target_language) for the paragraph or cell
\* id, returning result; ps are the paragraphs whose text is part of text
Request(kind, id, text, result, ps) ==
    /\ last' = [kind |-> kind, id |-> id, text |-> text, result |-> result]
    /\ requested' = requested \cup {<<kind, id>>}
    /\ covered' = [p \in DOMAIN covered |-> IF p \in ps THEN covered[p] + 1 ELSE covered[p]]

Raise_no_finally(stage) == pc' = "raised" /\ err' = stage

\* an exception inside the try block: control passes to the finally block
Raise(stage) == pc' = "finally" /\ err' = stage

MakeScratch_keep_stale ==
    /\ pc = "start"
    /\ pc' = "unpack"
    /\ scratch' = [scratch EXCEPT !.exists = TRUE]
    /\ UNCHANGED <<max_retries, inDoc, inMembers, tree, idx, last, requested, covered, updated, out, err, uText, other>>

\* if os.path.exists(temp_dir): shutil.rmtree(temp_dir); os.makedirs(temp_dir)
MakeScratch ==
    /\ pc = "start"
    /\ pc' = "unpack"
    /\ scratch' = [NoScratch EXCEPT !.exists = TRUE]
    /\ UNCHANGED <<max_retries, inDoc, inMembers, tree, idx, last, requested, covered, updated, out, err, uText, other>>

Unpack_opens_output ==
    /\ pc = "unpack"
    /\ pc' = "parse"
    /\ scratch' = [scratch EXCEPT
           !.exists = TRUE,
           !.files = [n \in DOMAIN scratch.files \cup
                            {m \in DOMAIN inMembers : inMembers[m] # "dir"} |->
                         IF n \in DOMAIN inMembers THEN inMembers[n]
                         ELSE scratch.files[n]],
           !.hasDoc = TRUE,
           !.doc = inDoc.paras]
    /\ out' = [NoOutput EXCEPT !.exists = TRUE]
    /\ UNCHANGED <<max_retries, inDoc, inMembers, tree, idx, last, requested, covered, updated, err, uText, other>>

\* zip_ref.extractall(temp_dir): the files are written, directories are made
Unpack ==
    /\ pc = "unpack"
    /\ pc' = "parse"
    /\ scratch' = [scratch EXCEPT
           !.exists = TRUE,
           !.files = [n \in DOMAIN scratch.files \cup
                            {m \in DOMAIN inMembers : inMembers[m] # "dir"} |->
                         IF n \in DOMAIN inMembers THEN inMembers[n]
                         ELSE scratch.files[n]],
           !.hasDoc = TRUE,
           !.doc = inDoc.paras]
    /\ UNCHANGED <<max_retries, inDoc, inMembers, tree, idx, last, requested, covered, updated, out, err, uText, other>>

\* the input is no zip archive, or cannot be read
UnpackFails ==
    /\ pc = "unpack"
    /\ Raise("unpack")
    /\ UNCHANGED <<max_retries, inDoc, inMembers, scratch, tree, idx, last, requested, covered, updated, out, uText, other>>

\* after the last paragraph the tables are processed, then the tree written
AfterParas(cells) == IF Visits(cells) = <<>> THEN "serialize" ELSE "tables"

\* tree = ET.parse(doc_xml_path)
Parse ==
    /\ pc = "parse"
    /\ scratch.hasDoc
    /\ tree' = scratch.doc
    /\ idx' = 1
    /\ pc' = "paras"
    /\ UNCHANGED <<max_retries, inDoc, inMembers, scratch, last, requested, covered, updated, out, err, uText, other>>

\* word/document.xml is not well-formed XML
ParseFails ==
    /\ pc = "parse"
    /\ Raise("parse")
    /\ UNCHANGED <<max_retries, inDoc, inMembers, scratch, tree, idx, last, requested, covered, updated, out, uText, other>>

\* the end of one round of the paragraph loop
NextPara ==
    /\ idx' = IF idx = Len(tree) THEN 1 ELSE idx + 1
    /\ pc' = IF idx = Len(tree) THEN AfterParas(inDoc.cells) ELSE "paras"

\* a paragraph whose extracted text is empty
SkipParagraph ==
    /\ pc = "paras"
    /\ strip(extract_text(tree[idx])) = <<>>
    /\ NextPara
    /\ UNCHANGED <<max_retries, inDoc, inMembers, scratch, tree, last, requested, covered, updated, out, err, uText, other>>

TranslateParagraph_unguarded ==
    /\ pc = "paras"
    /\ LET text == extract_text(tree[idx])
       IN  \E r \in TranslateResults(max_retries) :
                 /\ r # NONE
                 /\ Request("p", idx, text, r, {idx})
                 /\ tree' = UpdateElement(tree, idx, r)
                 /\ updated' = updated \cup {idx}
    /\ NextPara
    /\ UNCHANGED <<max_retries, inDoc, inMembers, scratch, out, err, uText, other>>

\* translate and update_text for one paragraph of root.findall('.//w:p')
TranslateParagraph ==
    /\ pc = "paras"
    /\ LET text == extract_text(tree[idx])
       IN  /\ strip(text) # <<>>
           /\ \E r \in TranslateResults(max_retries) :
                 /\ r # NONE
                 /\ Request("p", idx, text, r, {idx})
                 /\ tree' = UpdateElement(tree, idx, r)
                 /\ updated' = updated \cup {idx}
    /\ NextPara
    /\ UNCHANGED <<max_retries, inDoc, inMembers, scratch, out, err, uText, other>>

\* translate returns None: translated_text.strip() raises in update_text
TranslateParagraphRaises ==
    /\ pc = "paras"
    /\ LET text == extract_text(tree[idx])
       IN  /\ strip(text) # <<>>
           /\ NONE \in TranslateResults(max_retries)
           /\ Request("p", idx, text, NONE, {idx})
           /\ updated' = updated \cup {idx}
    /\ Raise("translation")
    /\ UNCHANGED <<max_retries, inDoc, inMembers, scratch, tree, idx, out, uText, other>>

\* for para in paras[1:]: every w:t of para gets ''
ClearParas(t, ps) ==
    [p \in DOMAIN t |->
        IF \E i \in DOMAIN ps : ps[i] = p
        THEN [t[p] EXCEPT !.leaves = [i \in DOMAIN t[p].leaves |-> <<>>]]
        ELSE t[p]]

\* the end of one round of the loops over tables, rows and cells
NextCell ==
    /\ idx' = idx + 1
    /\ pc' = IF idx = Len(Visits(inDoc.cells)) THEN "serialize" ELSE "tables"

\* process_table on a cell whose cell_text is empty
SkipCell ==
    /\ pc = "tables"
    /\ CellText(tree, inDoc.cells, Visits(inDoc.cells)[idx]) = <<>>
    /\ NextCell
    /\ UNCHANGED <<max_retries, inDoc, inMembers, scratch, tree, last, requested, covered, updated, out, err, uText, other>>

ProcessCell_no_sentinel_test ==
    /\ pc = "tables"
    /\ LET c == Visits(inDoc.cells)[idx]
           cell_text == CellText(tree, inDoc.cells, c)
           paras == CellParas(tree, inDoc.cells, c)
       IN  /\ cell_text # <<>>
           /\ \E r \in TranslateResults(max_retries) :
                 /\ Request("c", c, cell_text, r,
                        {p \in DOMAIN tree : /\ c \in Anc(inDoc.cells, tree[p].cell)
                                             /\ strip(extract_text(tree[p])) # <<>>})
                 /\ IF r # NONE /\ paras # <<>>
                    THEN /\ tree' = ClearParas(UpdateElement(tree, paras[1], r), Tail(paras))
                         /\ updated' = updated \cup {paras[1]}
                    ELSE UNCHANGED <<tree, updated>>
    /\ NextCell
    /\ UNCHANGED <<max_retries, inDoc, inMembers, scratch, out, err, uText, other>>

\* process_table on a cell with text: one call of translate, then the first
\* paragraph of the cell is updated and the later ones are cleared
ProcessCell ==
    /\ pc = "tables"
    /\ LET c == Visits(inDoc.cells)[idx]
           cell_text == CellText(tree, inDoc.cells, c)
           paras == CellParas(tree, inDoc.cells, c)
       IN  /\ cell_text # <<>>
           /\ \E r \in TranslateResults(max_retries) :
                 /\ Request("c", c, cell_text, r,
                        {p \in DOMAIN tree : /\ c \in Anc(inDoc.cells, tree[p].cell)
                                             /\ strip(extract_text(tree[p])) # <<>>})
                 /\ IF r # NONE /\ r # <<>> /\ r # ERROR /\ paras # <<>>
                    THEN /\ tree' = ClearParas(UpdateElement(tree, paras[1], r), Tail(paras))
                         /\ updated' = updated \cup {paras[1]}
                    ELSE UNCHANGED <<tree, updated>>
    /\ NextCell
    /\ UNCHANGED <<max_retries, inDoc, inMembers, scratch, out, err, uText, other>>

\* tree.write(doc_xml_path, ...): the directory temp_docx/word is there
Serialize ==
    /\ pc = "serialize"
    /\ scratch.hasDoc
    /\ scratch' = [scratch EXCEPT !.doc = tree]
    /\ pc' = "repack"
    /\ UNCHANGED <<max_retries, inDoc, inMembers, tree, idx, last, requested, covered, updated, out, err, uText, other>>

\* the write fails
SerializeFails ==
    /\ pc = "serialize"
    /\ Raise("serialize")
    /\ UNCHANGED <<max_retries, inDoc, inMembers, scratch, tree, idx, last, requested, covered, updated, out, uText, other>>

\* os.walk(temp_dir): every file below temp_dir is written to the archive;
\* directories are walked, not written
Repack ==
    /\ pc = "repack"
    /\ out' = [exists |-> TRUE, complete |-> TRUE, files |-> scratch.files,
               hasDoc |-> scratch.hasDoc, doc |-> scratch.doc]
    /\ pc' = "finally"
    /\ UNCHANGED <<max_retries, inDoc, inMembers, scratch, tree, idx, last, requested, covered, updated, err, uText, other>>

\* the archive is opened for writing and a write fails
RepackFails ==
    /\ pc = "repack"
    /\ out' = [NoOutput EXCEPT !.exists = TRUE]
    /\ Raise("repack")
    /\ UNCHANGED <<max_retries, inDoc, inMembers, scratch, tree, idx, last, requested, covered, updated, uText, other>>

\* finally: if os.path.exists(temp_dir): shutil.rmtree(temp_dir)
Finally ==
    /\ pc = "finally"
    /\ scratch' = NoScratch
    /\ pc' = IF err = "none" THEN "done" ELSE "raised"
    /\ UNCHANGED <<max_retries, inDoc, inMembers, tree, idx, last, requested, covered, updated, out, err, uText, other>>

Next ==
    \/ MakeScratch
    \/ Unpack
    \/ UnpackFails
    \/ Parse
    \/ ParseFails
    \/ SkipParagraph
    \/ TranslateParagraph
    \/ TranslateParagraphRaises
    \/ SkipCell
    \/ ProcessCell
    \/ Serialize
    \/ SerializeFails
    \/ Repack
    \/ RepackFails
    \/ Finally

\* one run of translate_document
Spec == Init /\ [][Next]_vars

\* one run on a document with a table in the first of two cells of a row
InitNested == InitRun(NestedDocs) /\ other = "idle"

SpecNested == InitNested /\ [][Next]_vars

-----------------------------------------------------------------------------
(* two invocations of translate_document in one working directory: the second
   one is followed only where it touches temp_docx *)

\* the package of the second invocation
OtherMembers == [n \in {"other.bin"} |-> "b2"]

OtherDoc ==
    [p \in 1..MaxParas |-> [leaves |-> << <<"y">> >>, math |-> FALSE, cell |-> 0]]

\* the first invocation starts in the plain surroundings
InitTwo ==
    /\ InitRun(Docs)
    /\ scratch = NoScratch
    /\ DOMAIN inMembers = {"styles.xml"}
    /\ out = NoOutput
    /\ other = "start"

\* if os.path.exists(temp_dir): shutil.rmtree(temp_dir); os.makedirs(temp_dir)
OtherMakeScratch ==
    /\ other = "start"
    /\ other' = "unpack"
    /\ scratch' = [NoScratch EXCEPT !.exists = TRUE]
    /\ UNCHANGED <<pc, max_retries, inDoc, inMembers, tree, idx, last, requested, covered, updated, out, err, uText>>

\* zip_ref.extractall(temp_dir)
OtherUnpack ==
    /\ other = "unpack"
    /\ other' = "work"
    /\ scratch' = [exists |-> TRUE,
                   files |-> [n \in DOMAIN scratch.files \cup DOMAIN OtherMembers |->
                                 IF n \in DOMAIN OtherMembers THEN OtherMembers[n]
                                 ELSE scratch.files[n]],
                   hasDoc |-> TRUE,
                   doc |-> OtherDoc]
    /\ UNCHANGED <<pc, max_retries, inDoc, inMembers, tree, idx, last, requested, covered, updated, out, err, uText>>

\* finally: if os.path.exists(temp_dir): shutil.rmtree(temp_dir)
OtherFinally ==
    /\ other = "work"
    /\ other' = "done"
    /\ scratch' = NoScratch
    /\ UNCHANGED <<pc, max_retries, inDoc, inMembers, tree, idx, last, requested, covered, updated, out, err, uText>>

NextTwo ==
    \/ Next
    \/ OtherMakeScratch
    \/ OtherUnpack
    \/ OtherFinally

SpecTwo == InitTwo /\ [][NextTwo]_vars

-----------------------------------------------------------------------------
(* update_text alone: one call on the first paragraph of a two-paragraph tree *)

Chars == {SP, "x", "y"}

Texts == UNION { [1..n -> Chars] : n \in 0..MaxTextLen }

LeafSeqs == UNION { [1..n -> { <<>>, <<"a">> }] : n \in 0..MaxLeaves }

InitUpdate ==
    /\ pc = "update_text"
    /\ \E ls \in LeafSeqs :
          inDoc = [paras |-> << [leaves |-> ls, math |-> FALSE, cell |-> 0],
                                [leaves |-> << <<"a">> >>, math |-> TRUE, cell |-> 0] >>,
                   cells |-> <<>>]
    /\ tree = inDoc.paras
    /\ uText \in Texts
    /\ max_retries = DefaultMaxRetries
    /\ inMembers = NoFiles
    /\ scratch = NoScratch
    /\ idx = 1
    /\ last = NoRequest
    /\ requested = {}
    /\ covered = [p \in DOMAIN inDoc.paras |-> 0]
    /\ updated = {}
    /\ out = NoOutput
    /\ err = "none"
    /\ other = "idle"

\* self.update_text(element, translated_text)
CallUpdateText ==
    /\ pc = "update_text"
    /\ tree' = UpdateElement(tree, idx, uText)
    /\ updated' = updated \cup {idx}
    /\ pc' = "returned"
    /\ UNCHANGED <<max_retries, inDoc, inMembers, scratch, idx, last, requested, covered, out, err, uText, other>>

NextUpdate == CallUpdateText

SpecUpdate == InitUpdate /\ [][NextUpdate]_vars

-----------------------------------------------------------------------------
(* Properties *)

Parsed == pc \in {"paras", "tables", "serialize", "repack", "finally", "done", "raised"}
              /\ tree # <<>>

\* the paragraph's leaves hold no non-whitespace text
BlankPara(para) == strip(concat(para.leaves)) = <<>>

\* the leaves below the cell hold no non-whitespace text
BlankCell(d, c) ==
    \A p \in DOMAIN d.paras : c \in Anc(d.cells, d.paras[p].cell) => BlankPara(d.paras[p])

\* C1: when translate returns the sentinel "error" for a non-empty paragraph,
\* every leaf of that paragraph keeps its original text, and the sentinel is
\* nowhere in the tree or in the document of the output package.
C1_SentinelLeavesParagraphIntact ==
    /\ (last.kind = "p" /\ last.result = ERROR)
          => tree[last.id].leaves = inDoc.paras[last.id].leaves
    /\ \A p \in DOMAIN tree : \A i \in DOMAIN tree[p].leaves : tree[p].leaves[i] # ERROR
    /\ \A p \in DOMAIN out.doc : \A i \in DOMAIN out.doc[p].leaves :
          out.doc[p].leaves[i] # ERROR

\* C2: a run that has ended, completed or aborted at any stage, has removed
\* the scratch directory.
C2_ScratchRemovedAtEnd == pc \in {"done", "raised"} => ~scratch.exists

C2_Witness ==
    /\ pc = "raised"
    /\ err = "translation"
    /\ ~scratch.exists

\* C3: a paragraph that holds a math node extracts to the empty string and
\* its leaves have their original text throughout the run and in the output.
C3_MathParagraphUntouched ==
    \A p \in DOMAIN inDoc.paras :
        inDoc.paras[p].math =>
            /\ extract_text(inDoc.paras[p]) = <<>>
            /\ Parsed => tree[p].leaves = inDoc.paras[p].leaves
            /\ out.hasDoc => out.doc[p].leaves = inDoc.paras[p].leaves

InCellWithText(d, p) ==
    \E c \in Anc(d.cells, d.paras[p].cell) : CellText(d.paras, d.cells, c) # <<>>

C5_EachLeafRequestedOnce ==
    /\ \A p \in DOMAIN covered : covered[p] <= 1
    /\ \A p \in DOMAIN inDoc.paras :
          <<"p", p>> \in requested => inDoc.paras[p].cell = 0

\* C6: the text sent for a cell is the space-joined, trimmed extracted texts
\* of the cell's paragraphs as they were in the input; after a successful
\* translation the first paragraph of the cell carries the translated text
\* and every leaf of the later paragraphs is empty.
C6_CellUnitIsOriginalText ==
    last.kind = "c" =>
        LET paras == CellParas(tree, inDoc.cells, last.id)
        IN  /\ last.text = CellText(inDoc.paras, inDoc.cells, last.id)
            /\ (last.result # NONE /\ last.result # ERROR /\ strip(last.result) # <<>>)
                  => /\ split(join(tree[paras[1]].leaves)) = split(last.result)
                     /\ \A k \in 2..Len(paras) :
                           \A i \in DOMAIN tree[paras[k]].leaves :
                               tree[paras[k]].leaves[i] = <<>>

\* the leaves of the paragraph update_text was called on, before and after
Before == inDoc.paras[1].leaves

After == tree[1].leaves

\* C7: update_text does nothing when the trimmed text is empty or there is no
\* leaf; puts the whole text in a single leaf; and with N > 1 leaves and
\* w = max(1, words div N) gives leaf i < N-1 the words [i*w, (i+1)*w), the
\* last leaf the words from (N-1)*w on, and a leaf that starts past the words
\* the empty text.
C7_UpdateTextRedistributes ==
    pc = "returned" =>
        LET N == Len(Before)
            words == split(uText)
            total == Len(words)
            w == Max(1, total \div N)
        IN  /\ (strip(uText) = <<>> \/ N = 0) => After = Before
            /\ (strip(uText) # <<>> /\ N = 1) => After = <<uText>>
            /\ (strip(uText) # <<>> /\ N > 1) =>
                  /\ Len(After) = N
                  /\ \A i \in 0..(N - 1) :
                        After[i + 1] =
                            IF i * w >= total THEN <<>>
                            ELSE IF i < N - 1
                                 THEN join(SubSeq(words, i * w + 1, Min((i + 1) * w, total)))
                                 ELSE join(SubSeq(words, (N - 1) * w + 1, total))

\* three leaves and four words: the last leaf takes the remainder
C7_Witness ==
    /\ pc = "returned"
    /\ Len(Before) = 3
    /\ uText = <<"x", SP, "y", SP, "y", SP, "x">>
    /\ After = << <<"x">>, <<"y">>, <<"y", SP, "x">> >>

\* C8 as claimed: with two or more leaves and a non-empty translated string,
\* the leaves' texts joined by spaces have the words of the translated string.
C8_WordsConservedNonEmpty ==
    (pc = "returned" /\ Len(Before) >= 2 /\ uText # <<>>)
        => split(join(After)) = split(uText)

\* C8 as amended: with two or more leaves and a translated string that has a
\* non-whitespace character, the leaves' texts joined by spaces have the
\* words of the translated string.
C8_WordsConservedNonBlank ==
    (pc = "returned" /\ Len(Before) >= 2 /\ strip(uText) # <<>>)
        => split(join(After)) = split(uText)

\* fewer words than leaves
C8_Witness ==
    /\ pc = "returned"
    /\ Len(Before) = 3
    /\ Len(split(uText)) = 2
    /\ split(join(After)) = split(uText)

IsString(s) == \A i \in DOMAIN s : s[i] \in Chars \cup {"a"}

\* C9: after update_text the paragraph has as many leaves as before, each
\* with a string, and nothing but the text of its leaves has changed.
C9_UpdateTextKeepsLeaves ==
    pc = "returned" =>
        /\ Len(After) = Len(Before)
        /\ \A i \in DOMAIN After : IsString(After[i])
        /\ tree[1].math = inDoc.paras[1].math
        /\ tree[1].cell = inDoc.paras[1].cell
        /\ Len(tree) = Len(inDoc.paras)
        /\ \A p \in 2..Len(tree) : tree[p] = inDoc.paras[p]

\* more leaves than words: the leaves past the words are kept, empty
C9_Witness ==
    /\ pc = "returned"
    /\ Len(Before) = 3
    /\ Len(split(uText)) = 1
    /\ Len(After) = 3
    /\ After[3] = <<>>

DocName == "word/document.xml"

\* the member names of a package with these other members
MemberNames(files) == DOMAIN files \cup {DocName}

\* C10 as claimed: after a successful run the output package has the member
\* names of the input package, and every member but word/document.xml has
\* its bytes.
C10_SameMembers ==
    pc = "done" =>
        /\ out.exists /\ out.complete /\ out.hasDoc
        /\ MemberNames(out.files) = MemberNames(inMembers)
        /\ \A n \in DOMAIN inMembers : out.files[n] = inMembers[n]

\* the members of the input that are files
FileMembers == {n \in DOMAIN inMembers : inMembers[n] # "dir"}

\* C10 as amended: after a successful run the output package has the names of
\* the input package's file members (its directory entries are not written),
\* and every file member but word/document.xml has its bytes.
C10_SameFileMembers ==
    pc = "done" =>
        /\ out.exists /\ out.complete /\ out.hasDoc
        /\ DOMAIN out.files = FileMembers
        /\ \A n \in FileMembers : out.files[n] = inMembers[n]

C10_Witness ==
    /\ pc = "done"
    /\ "word/" \in DOMAIN inMembers
    /\ DOMAIN out.files = {"styles.xml"}
    /\ out.doc # inDoc.paras


-----------------------------------------------------------------------------
(* C11 *)

\* C11: nothing is written to output_file before the tree has been rewritten
\* and serialized: no step before the repacking, and no step of a run that
\* aborted at unpack, parse, translation or serialization, creates or
\* changes the file at output_file.
C11_OutputUntouchedBeforeRepack ==
    [][ (\/ pc \in {"start", "unpack", "parse", "paras", "tables", "serialize"}
         \/ (pc = "finally" /\ err \in {"unpack", "parse", "translation", "serialize"}))
        => out' = out ]_vars

\* a run that aborted at serialization, with the earlier file still in place
C11_Witness ==
    /\ pc = "raised"
    /\ err = "serialize"
    /\ out = PriorOutput
    /\ updated # {}

-----------------------------------------------------------------------------
(* C12 *)

\* C12: two concurrent invocations never touch each other's scratch area:
\* from its unpacking to its finally block the files below an invocation's
\* scratch location are the ones it extracted itself, and the document there
\* is its own.
C12_ScratchOwnedByOneRun ==
    /\ pc \in {"parse", "paras", "tables", "serialize", "repack"} =>
          /\ scratch.exists
          /\ scratch.hasDoc
          /\ scratch.files = [n \in FileMembers |-> inMembers[n]]
          /\ scratch.doc \in {inDoc.paras, tree}
    /\ other = "work" =>
          /\ scratch.exists
          /\ scratch.hasDoc
          /\ scratch.files = OtherMembers
          /\ scratch.doc = OtherDoc

-----------------------------------------------------------------------------
(* C13 *)

\* cell c is not after cell d by table, then row, then cell
CellNotAfter(cells, c, d) ==
    \/ cells[c].tbl < cells[d].tbl
    \/ cells[c].tbl = cells[d].tbl /\ cells[c].row < cells[d].row
    \/ cells[c].tbl = cells[d].tbl /\ cells[c].row = cells[d].row /\ c <= d

\* request b may follow request a
InOrder(cells, a, b) ==
    \/ a.kind = "none"
    \/ a.kind = "p" /\ b.kind = "p" /\ a.id < b.id
    \/ a.kind = "p" /\ b.kind = "c"
    \/ a.kind = "c" /\ b.kind = "c" /\ CellNotAfter(cells, a.id, b.id)

\* C13: requests are issued one at a time in document order: every request
\* follows the one before it in the order paragraphs first, then cells by
\* table, row and cell, and the step that makes a request also writes its
\* result to the tree, so that the next request reads the rewritten tree.
C13_RequestsInDocumentOrder ==
    [][ covered' # covered =>
          /\ InOrder(inDoc.cells, last, last')
          /\ (last'.kind = "p" /\ last'.result # NONE) =>
                 tree'[last'.id].leaves =
                     update_text(tree[last'.id].leaves, last'.result) ]_vars

-----------------------------------------------------------------------------
(* C14 *)

\* C14: for every max_retries translate returns a string, the answer of the
\* first call of translate_text that succeeds or the sentinel "error", and
\* no failure of a request propagates out of translate_document.
C14_TranslateReturnsString ==
    /\ last.kind # "none" => last.result \in BackendTexts \cup {ERROR}
    /\ err # "translation"

-----------------------------------------------------------------------------
(* C15 *)

\* C15: when the request for a cell returns the sentinel "error" or an empty
\* result, that step changes no leaf of the tree, raises nothing, and the
\* loop goes on to the next cell, if there is one.
C15_FailedCellUnchanged ==
    [][ (/\ covered' # covered
         /\ last'.kind = "c"
         /\ last'.result \in {ERROR, <<>>})
        => /\ tree' = tree
           /\ err' = "none"
           /\ idx' = idx + 1
           /\ idx < Len(Visits(inDoc.cells)) => pc' = "tables" ]_vars

\* the request for the first of two cells with text returned "error", and
\* the second cell is next
C15_Witness ==
    /\ pc = "tables"
    /\ idx = 2
    /\ last.kind = "c"
    /\ last.result = ERROR
    /\ \A c \in DOMAIN inDoc.cells : CellText(tree, inDoc.cells, c) # <<>>
    /\ \E p \in DOMAIN tree : tree[p].cell = last.id /\ concat(tree[p].leaves) # <<>>

-----------------------------------------------------------------------------
(* C16 *)

\* C16: a cell whose request returned a non-empty result other than the
\* sentinel has, from then on, a leaf that is not empty.
C16_TranslatedCellKeepsText ==
    (/\ last.kind = "c"
     /\ last.result \notin {NONE, ERROR, <<>>})
    => \E p \in DOMAIN tree :
          /\ last.id \in Anc(inDoc.cells, tree[p].cell)
          /\ \E i \in DOMAIN tree[p].leaves : tree[p].leaves[i] # <<>>

====
